---- MODULE Spec2Model ----
(***************************************************************************)
(* Pong (src/pong.py): Paddle, Ball and the match loop of main().          *)
(*                                                                         *)
(* Units.  Rect coordinates are whole pixels, as in pygame.Rect.  Times    *)
(* are whole milliseconds, as returned by clock.tick and get_ticks; the    *)
(* frame time dt of the code is dtms / 1000.  Velocities are held in whole *)
(* px/s.  The AI's float fields (_target_y, _aim_error) are held in        *)
(* thousandths of a pixel.  Angles are held in units of 0.018 rad, the     *)
(* angle one pixel of paddle offset gives: (1 / 50) * 0.9.                 *)
(* int() of Python truncates toward zero: Trunc.                           *)
(***************************************************************************)
EXTENDS Integers, Sequences, FiniteSets, TLC

\* ---- configuration (src/pong.py:9-31) ----
SCREEN_WIDTH == 800
SCREEN_HEIGHT == 600
PADDLE_WIDTH == 12
PADDLE_HEIGHT == 100
PADDLE_MARGIN == 30
PADDLE_SPEED == 420
AI_MAX_SPEED == 390
BALL_SIZE == 14
BALL_SPEED == 360
BALL_SPEED_INCREMENT == 18
BALL_SPEED_MAX == 680
SCORE_TO_WIN == 10
SERVE_DELAY == 800
AI_REACTION_LO == 80
AI_REACTION_HI == 160
AI_AIM_ERROR_LO == 10
AI_AIM_ERROR_HI == 48
\* AI_TRACK_DAMPING = 0.22 and AI_LOOKAHEAD_FACTOR = 0.55, in hundredths
AI_TRACK_DAMPING_PCT == 22
AI_LOOKAHEAD_PCT == 55

\* ---- arithmetic helpers ----
Abs(a) == IF a < 0 THEN -a ELSE a

Max(a, b) == IF a >= b THEN a ELSE b

Min(a, b) == IF a <= b THEN a ELSE b

\* int(a / b) for b > 0: truncation toward zero
Trunc(a, b) == IF a >= 0 THEN a \div b ELSE -((-a) \div b)

clamp(val, lo, hi) == Max(lo, Min(hi, val))

\* 1000 * cos(0.018 * d) and 1000 * sin(0.018 * d) for d = 0 .. 50
CosTab ==
  << 1000, 1000, 999, 999, 997, 996, 994, 992, 990, 987, 984, 980, 977, 973,
     968, 964, 959, 954, 948, 942, 936, 929, 923, 916, 908, 900, 892, 884,
     876, 867, 858, 848, 839, 829, 819, 808, 797, 786, 775, 764, 752, 740,
     728, 715, 702, 689, 676, 663, 649, 636, 622 >>

SinTab ==
  << 0, 18, 36, 54, 72, 90, 108, 126, 144, 161, 179, 197, 214, 232, 249, 267,
     284, 301, 318, 335, 352, 369, 386, 402, 419, 435, 451, 467, 483, 499,
     514, 529, 545, 560, 575, 589, 604, 618, 632, 646, 659, 673, 686, 699,
     712, 724, 737, 749, 760, 772, 783 >>

Cos1000(d) == CosTab[Abs(d) + 1]

Sin1000(d) == IF d >= 0 THEN SinTab[d + 1] ELSE -SinTab[(-d) + 1]

\* ---- rectangles ----
LEFT_PADDLE_X == PADDLE_MARGIN

RIGHT_PADDLE_X == SCREEN_WIDTH - PADDLE_MARGIN - PADDLE_WIDTH

PaddleCenterY(p) == p.y + PADDLE_HEIGHT \div 2

BallCenterY(b) == b.y + BALL_SIZE \div 2

BallRight(b) == b.x + BALL_SIZE

BallBottom(b) == b.y + BALL_SIZE

\* pygame.Rect.colliderect of the ball with the paddle whose left edge is px
colliderect(b, px, p) ==
  /\ b.x < px + PADDLE_WIDTH
  /\ px < b.x + BALL_SIZE
  /\ b.y < p.y + PADDLE_HEIGHT
  /\ p.y < b.y + BALL_SIZE

\* ---- geometry utilities ----
\* the reflection folding on t >= span and from span, not 2 * span
reflect_off_bounds_fold(y, min_y, max_y) ==
  LET span == max_y - min_y
      t == (y - min_y) % (2 * span)
  IN  IF span <= 0 THEN clamp(y, min_y, max_y)
      ELSE min_y + (IF t >= span THEN span - t ELSE t)

reflect_off_bounds(y, min_y, max_y) ==
  LET span == max_y - min_y
      t == (y - min_y) % (2 * span)
  IN  IF span <= 0 THEN clamp(y, min_y, max_y)
      ELSE min_y + (IF t > span THEN 2 * span - t ELSE t)

\* ---- Paddle ----
\* update_player clamping at the screen edge, not half a paddle inside it
update_player_edge(p, dtms, up, down) ==
  LET dy == (IF up THEN -(PADDLE_SPEED * dtms) ELSE 0)
            + (IF down THEN PADDLE_SPEED * dtms ELSE 0)
      c == Max(0, Min(SCREEN_HEIGHT, Trunc(PaddleCenterY(p) * 1000 + dy, 1000)))
  IN  [p EXCEPT !.y = c - PADDLE_HEIGHT \div 2]

update_player(p, dtms, up, down) ==
  LET dy == (IF up THEN -(PADDLE_SPEED * dtms) ELSE 0)
            + (IF down THEN PADDLE_SPEED * dtms ELSE 0)
      c == Max(PADDLE_HEIGHT \div 2,
               Min(SCREEN_HEIGHT - PADDLE_HEIGHT \div 2,
                   Trunc(PaddleCenterY(p) * 1000 + dy, 1000)))
  IN  [p EXCEPT !.y = c - PADDLE_HEIGHT \div 2]

\* the reaction timer has run out in this call
Reaims(p, dtms) == p.reaction_timer + dtms >= p.next_reaction_at

\* update_ai with the whole aim error when the ball moves away
update_ai_fullerr(p, dtms, b, rdelay, aerr) ==
  LET timer == p.reaction_timer + dtms
      fire == timer >= p.next_reaction_at
      gap == RIGHT_PADDLE_X - BallRight(b)
      predicted == BallCenterY(b) * 1000
                   + Trunc(b.vy * gap * (AI_LOOKAHEAD_PCT * 10), b.vx)
      reflected == reflect_off_bounds(predicted, (BALL_SIZE \div 2) * 1000,
                                  (SCREEN_HEIGHT - BALL_SIZE \div 2) * 1000)
      toward == b.vx > 0
      aim == IF toward
               THEN Trunc(aerr * Min(BALL_SPEED_MAX, Abs(b.vx)), BALL_SPEED_MAX)
               ELSE aerr
      target == IF ~fire THEN p.target_y
                ELSE IF toward THEN reflected + aim
                ELSE (SCREEN_HEIGHT * 1000) \div 2 + aim
      desired == Trunc((target - PaddleCenterY(p) * 1000) * AI_TRACK_DAMPING_PCT, 100)
      max_step == AI_MAX_SPEED * dtms
      step == clamp(desired, -max_step, max_step)
      c == Trunc(PaddleCenterY(p) * 1000 + step, 1000)
      top == Max(0, c - PADDLE_HEIGHT \div 2)
      bottom == Min(SCREEN_HEIGHT, top + PADDLE_HEIGHT)
  IN  [ y |-> bottom - PADDLE_HEIGHT,
        reaction_timer |-> IF fire THEN 0 ELSE timer,
        next_reaction_at |-> IF fire THEN rdelay ELSE p.next_reaction_at,
        target_y |-> target,
        aim_error |-> IF fire THEN aim ELSE p.aim_error ]

\* update_ai re-aiming only once the timer has passed the delay
update_ai_late(p, dtms, b, rdelay, aerr) ==
  LET timer == p.reaction_timer + dtms
      fire == timer > p.next_reaction_at
      gap == RIGHT_PADDLE_X - BallRight(b)
      predicted == BallCenterY(b) * 1000
                   + Trunc(b.vy * gap * (AI_LOOKAHEAD_PCT * 10), b.vx)
      reflected == reflect_off_bounds(predicted, (BALL_SIZE \div 2) * 1000,
                                  (SCREEN_HEIGHT - BALL_SIZE \div 2) * 1000)
      toward == b.vx > 0
      aim == IF toward
               THEN Trunc(aerr * Min(BALL_SPEED_MAX, Abs(b.vx)), BALL_SPEED_MAX)
               ELSE Trunc(aerr * 3, 10)
      target == IF ~fire THEN p.target_y
                ELSE IF toward THEN reflected + aim
                ELSE (SCREEN_HEIGHT * 1000) \div 2 + aim
      desired == Trunc((target - PaddleCenterY(p) * 1000) * AI_TRACK_DAMPING_PCT, 100)
      max_step == AI_MAX_SPEED * dtms
      step == clamp(desired, -max_step, max_step)
      c == Trunc(PaddleCenterY(p) * 1000 + step, 1000)
      top == Max(0, c - PADDLE_HEIGHT \div 2)
      bottom == Min(SCREEN_HEIGHT, top + PADDLE_HEIGHT)
  IN  [ y |-> bottom - PADDLE_HEIGHT,
        reaction_timer |-> IF fire THEN 0 ELSE timer,
        next_reaction_at |-> IF fire THEN rdelay ELSE p.next_reaction_at,
        target_y |-> target,
        aim_error |-> IF fire THEN aim ELSE p.aim_error ]

\* rdelay: the draw of _rand_reaction_delay (ms); aerr: the draw of
\* _rand_aim_error (thousandths of a pixel, signed)
update_ai(p, dtms, b, rdelay, aerr) ==
  LET timer == p.reaction_timer + dtms
      fire == timer >= p.next_reaction_at
      gap == RIGHT_PADDLE_X - BallRight(b)
      predicted == BallCenterY(b) * 1000
                   + Trunc(b.vy * gap * (AI_LOOKAHEAD_PCT * 10), b.vx)
      reflected == reflect_off_bounds(predicted, (BALL_SIZE \div 2) * 1000,
                                  (SCREEN_HEIGHT - BALL_SIZE \div 2) * 1000)
      toward == b.vx > 0
      aim == IF toward
               THEN Trunc(aerr * Min(BALL_SPEED_MAX, Abs(b.vx)), BALL_SPEED_MAX)
               ELSE Trunc(aerr * 3, 10)
      target == IF ~fire THEN p.target_y
                ELSE IF toward THEN reflected + aim
                ELSE (SCREEN_HEIGHT * 1000) \div 2 + aim
      desired == Trunc((target - PaddleCenterY(p) * 1000) * AI_TRACK_DAMPING_PCT, 100)
      max_step == AI_MAX_SPEED * dtms
      step == clamp(desired, -max_step, max_step)
      c == Trunc(PaddleCenterY(p) * 1000 + step, 1000)
      top == Max(0, c - PADDLE_HEIGHT \div 2)
      bottom == Min(SCREEN_HEIGHT, top + PADDLE_HEIGHT)
  IN  [ y |-> bottom - PADDLE_HEIGHT,
        reaction_timer |-> IF fire THEN 0 ELSE timer,
        next_reaction_at |-> IF fire THEN rdelay ELSE p.next_reaction_at,
        target_y |-> target,
        aim_error |-> IF fire THEN aim ELSE p.aim_error ]

\* ---- Ball ----
Stopped(b) == b.vx = 0 /\ b.vy = 0

\* the serve fires in this call; b.serve_time is held relative to the current
\* get_ticks(): the milliseconds still to wait, 0 once now >= _serve_time
ServeReady(b) == Stopped(b) /\ b.serve_time = 0

\* angle: the draw of random.uniform(-0.35, 0.35), in units of 0.018 rad
serve_if_ready(b, angle) ==
  IF ServeReady(b)
    THEN [b EXCEPT !.vx = b.serve_dir * Trunc(b.speed * Cos1000(angle), 1000),
                   !.vy = Trunc(b.speed * Sin1000(angle), 1000)]
    ELSE b

\* reset serving toward the other side
reset_flipped(b, scorer_dir) ==
  [ x |-> SCREEN_WIDTH \div 2 - BALL_SIZE \div 2,
    y |-> SCREEN_HEIGHT \div 2 - BALL_SIZE \div 2,
    vx |-> 0, vy |-> 0,
    speed |-> BALL_SPEED,
    serve_dir |-> -scorer_dir,
    serve_time |-> SERVE_DELAY ]

\* reset that schedules no delay
reset_nodelay(b, scorer_dir) ==
  [ x |-> SCREEN_WIDTH \div 2 - BALL_SIZE \div 2,
    y |-> SCREEN_HEIGHT \div 2 - BALL_SIZE \div 2,
    vx |-> 0, vy |-> 0,
    speed |-> BALL_SPEED,
    serve_dir |-> scorer_dir,
    serve_time |-> 0 ]

reset(b, scorer_dir) ==
  [ x |-> SCREEN_WIDTH \div 2 - BALL_SIZE \div 2,
    y |-> SCREEN_HEIGHT \div 2 - BALL_SIZE \div 2,
    vx |-> 0, vy |-> 0,
    speed |-> BALL_SPEED,
    serve_dir |-> scorer_dir,
    serve_time |-> SERVE_DELAY ]

\* the bounce with max for min in the speed cap
bounce_off_paddle_max(b, p, is_left, jitter) ==
  LET offset == clamp(BallCenterY(b) - PaddleCenterY(p),
                      -(PADDLE_HEIGHT \div 2), PADDLE_HEIGHT \div 2)
      speed == Max(BALL_SPEED_MAX, b.speed + BALL_SPEED_INCREMENT)
      direction == IF ~is_left THEN 1 ELSE -1
  IN  [b EXCEPT !.speed = speed,
                !.vx = direction * Trunc(speed * Cos1000(offset), 1000),
                !.vy = Trunc(speed * Sin1000(offset), 1000) + jitter,
                !.x = IF is_left THEN LEFT_PADDLE_X + PADDLE_WIDTH
                      ELSE RIGHT_PADDLE_X - BALL_SIZE]

\* the bounce without the speed cap
bounce_off_paddle_nocap(b, p, is_left, jitter) ==
  LET offset == clamp(BallCenterY(b) - PaddleCenterY(p),
                      -(PADDLE_HEIGHT \div 2), PADDLE_HEIGHT \div 2)
      speed == b.speed + BALL_SPEED_INCREMENT
      direction == IF ~is_left THEN 1 ELSE -1
  IN  [b EXCEPT !.speed = speed,
                !.vx = direction * Trunc(speed * Cos1000(offset), 1000),
                !.vy = Trunc(speed * Sin1000(offset), 1000) + jitter,
                !.x = IF is_left THEN LEFT_PADDLE_X + PADDLE_WIDTH
                      ELSE RIGHT_PADDLE_X - BALL_SIZE]

\* jitter: the draw of random.uniform(-8.0, 8.0), px/s
bounce_off_paddle(b, p, is_left, jitter) ==
  LET offset == clamp(BallCenterY(b) - PaddleCenterY(p),
                      -(PADDLE_HEIGHT \div 2), PADDLE_HEIGHT \div 2)
      speed == Min(BALL_SPEED_MAX, b.speed + BALL_SPEED_INCREMENT)
      direction == IF ~is_left THEN 1 ELSE -1
  IN  [b EXCEPT !.speed = speed,
                !.vx = direction * Trunc(speed * Cos1000(offset), 1000),
                !.vy = Trunc(speed * Sin1000(offset), 1000) + jitter,
                !.x = IF is_left THEN LEFT_PADDLE_X + PADDLE_WIDTH
                      ELSE RIGHT_PADDLE_X - BALL_SIZE]

\* "Move": the position integrated over the frame
BallMove(b, dtms) ==
  [b EXCEPT !.x = b.x + Trunc(b.vx * dtms, 1000),
            !.y = b.y + Trunc(b.vy * dtms, 1000)]

WallOf(b) ==
  IF b.y <= 0 THEN "top"
  ELSE IF BallBottom(b) >= SCREEN_HEIGHT THEN "bottom" ELSE "none"

\* the wall step with the bottom wall's negation left out
BallWalls_nobottom(b) ==
  IF b.y <= 0 THEN [b EXCEPT !.y = 0, !.vy = -b.vy]
  ELSE IF BallBottom(b) >= SCREEN_HEIGHT
    THEN [b EXCEPT !.y = SCREEN_HEIGHT - BALL_SIZE]
  ELSE b

\* the wall step negating the velocity without putting the ball on the wall
BallWalls_noclamp(b) ==
  IF b.y <= 0 THEN [b EXCEPT !.vy = -b.vy]
  ELSE IF BallBottom(b) >= SCREEN_HEIGHT THEN [b EXCEPT !.vy = -b.vy]
  ELSE b

\* "Collide with top/bottom"
BallWalls(b) ==
  IF b.y <= 0 THEN [b EXCEPT !.y = 0, !.vy = -b.vy]
  ELSE IF BallBottom(b) >= SCREEN_HEIGHT
    THEN [b EXCEPT !.y = SCREEN_HEIGHT - BALL_SIZE, !.vy = -b.vy]
  ELSE b

HitOf(b, lp, rp) ==
  IF colliderect(b, LEFT_PADDLE_X, lp) /\ b.vx < 0 THEN "left"
  ELSE IF colliderect(b, RIGHT_PADDLE_X, rp) /\ b.vx > 0 THEN "right"
  ELSE "none"

\* "Paddle collisions"
BallPaddles(b, lp, rp, jitter) ==
  IF HitOf(b, lp, rp) = "left" THEN bounce_off_paddle(b, lp, TRUE, jitter)
  ELSE IF HitOf(b, lp, rp) = "right" THEN bounce_off_paddle(b, rp, FALSE, jitter)
  ELSE b

\* "Out of bounds (score)": the value Ball.update returns
ScoreOf(b) ==
  IF BallRight(b) < 0 THEN 1
  ELSE IF b.x > SCREEN_WIDTH THEN -1
  ELSE 0

\* which screen edge the ball has fully passed
ExitOf(b) ==
  IF b.x + BALL_SIZE < 0 THEN "left"
  ELSE IF b.x > SCREEN_WIDTH THEN "right"
  ELSE "none"

\* Ball.update: the ball it leaves and the value it returns
update(b, dtms, lp, rp, angle, jitter) ==
  LET served == serve_if_ready(b, angle)
      moved == BallMove(served, dtms)
      walled == BallWalls(moved)
      bounced == BallPaddles(walled, lp, rp, jitter)
  IN  IF Stopped(served) THEN [ball |-> served, ret |-> 0]
      ELSE [ball |-> bounced, ret |-> ScoreOf(bounced)]

\* ---- the match: state of main() ----
\* last: what the latest pass of the loop did (its frame time, the ball as
\*   Ball.update left it after each of its steps, the value it returned);
\* scored: the score incremented most recently;
\* since_reset: the milliseconds since the latest Ball.reset, counted up to
\*   SERVE_DELAY (SERVE_DELAY before the first reset);
\* probe: the arguments and the result of a function called on its own, in the
\*   specifications that exercise one function outside the loop
VARIABLES left_paddle, right_paddle, ball, left_score, right_score,
          last, scored, since_reset, probe

vars == << left_paddle, right_paddle, ball, left_score, right_score,
           last, scored, since_reset, probe >>

\* ---- bounds of the model ----
\* Spec: passes of the loop are taken while both scores are at most MaxScore
MaxScore == 11

\* SpecRally: passes of the loop are taken for the first MaxPoints points
MaxPoints == 2

\* SpecReact: passes of the loop are taken for the first MaxReactPoints points
MaxReactPoints == 1

\* SpecReflect: reflect_off_bounds is called with bounds in
\* -MaxBound .. MaxBound and y in -3 * MaxBound .. 3 * MaxBound
MaxBound == 4

\* ---- inputs of a pass of the loop ----
\* keys[K_w], keys[K_s]
AllKeys == { <<FALSE, FALSE>>, <<TRUE, FALSE>>, <<FALSE, TRUE>>, <<TRUE, TRUE>> }

NoKeys == { <<FALSE, FALSE>> }

\* the clock moves on by dtms: the wait that is left until _serve_time
Tick(b, dtms) == [b EXCEPT !.serve_time = Max(0, b.serve_time - dtms)]

\* Paddle.__init__ of the player's paddle (its AI fields are never read)
NewPaddle(y) == [y |-> y]

\* Paddle.__init__ of the AI paddle; rdelay: the draw of _rand_reaction_delay
NewAIPaddle(y, rdelay) ==
  [ y |-> y, reaction_timer |-> 0, next_reaction_at |-> rdelay,
    target_y |-> (y + PADDLE_HEIGHT \div 2) * 1000, aim_error |-> 0 ]

\* Ball.__init__; dir: the draw of random.choice([-1, 1])
NewBall(cx, cy, dir) ==
  [ x |-> cx - BALL_SIZE \div 2, y |-> cy - BALL_SIZE \div 2,
    vx |-> 0, vy |-> 0, speed |-> BALL_SPEED,
    serve_dir |-> dir, serve_time |-> SERVE_DELAY ]

\* no function has been called on its own
NoProbe == [op |-> "none"]

NoFrame(b) ==
  [ dt |-> 0, served |-> FALSE, reaimed |-> FALSE, ran |-> FALSE,
    moved |-> b, walled |-> b, bounced |-> b,
    wall |-> "none", hit |-> "none", exit |-> "none", ret |-> 0 ]

\* main(), lines 247-258
InitWith(RD) ==
  /\ left_paddle = NewPaddle(SCREEN_HEIGHT \div 2 - PADDLE_HEIGHT \div 2)
  /\ \E rdelay \in RD :
       right_paddle = NewAIPaddle(SCREEN_HEIGHT \div 2 - PADDLE_HEIGHT \div 2, rdelay)
  /\ \E dir \in {-1, 1} :
       ball = NewBall(SCREEN_WIDTH \div 2, SCREEN_HEIGHT \div 2, dir)
  /\ left_score = 0
  /\ right_score = 0
  /\ last = NoFrame(ball)
  /\ scored = "none"
  /\ since_reset = SERVE_DELAY

\* main(), lines 279-285: the scores and the ball after the score signal
ScoreLeft(ls, score_dir) == IF score_dir > 0 THEN ls + 1 ELSE ls

\* the right score incremented on every nonzero signal
ScoreRight_any(rs, score_dir) == IF score_dir # 0 THEN rs + 1 ELSE rs

ScoreRight(rs, score_dir) == IF score_dir # 0 /\ ~(score_dir > 0) THEN rs + 1 ELSE rs

ResetAfter(b, score_dir) ==
  IF score_dir # 0
    THEN (IF score_dir > 0 THEN reset(b, 1) ELSE reset(b, -1))
    ELSE b

\* main(), lines 301-312: the win banner's test and the freeze
Won(ls, rs) == ls >= SCORE_TO_WIN \/ rs >= SCORE_TO_WIN

Freeze(b, ls, rs) == IF Won(ls, rs) THEN [b EXCEPT !.vx = 0, !.vy = 0] ELSE b

\* one pass of the while loop of main(), lines 262-314
FrameStep(dtms, up, down, rdelay, aerr, angle, jitter) ==
  LET lp == update_player(left_paddle, dtms, up, down)
      rp == update_ai(right_paddle, dtms, ball, rdelay, aerr)
      tb == Tick(ball, dtms)
      served == serve_if_ready(tb, angle)
      ran == ~Stopped(served)
      moved == IF ran THEN BallMove(served, dtms) ELSE served
      walled == IF ran THEN BallWalls(moved) ELSE served
      r == update(tb, dtms, lp, rp, angle, jitter)
      score_dir == r.ret
      ls == ScoreLeft(left_score, score_dir)
      rs == ScoreRight(right_score, score_dir)
  IN  /\ left_paddle' = lp
      /\ right_paddle' = rp
      /\ ball' = Freeze(ResetAfter(r.ball, score_dir), ls, rs)
      /\ left_score' = ls
      /\ right_score' = rs
      /\ last' = [ dt |-> dtms,
                   served |-> ServeReady(tb),
                   reaimed |-> Reaims(right_paddle, dtms),
                   ran |-> ran,
                   moved |-> moved,
                   walled |-> walled,
                   bounced |-> r.ball,
                   wall |-> IF ran THEN WallOf(moved) ELSE "none",
                   hit |-> IF ran THEN HitOf(walled, lp, rp) ELSE "none",
                   exit |-> ExitOf(r.ball),
                   ret |-> score_dir ]
      /\ scored' = IF ls > left_score THEN "left"
                   ELSE IF rs > right_score THEN "right"
                   ELSE scored
      /\ since_reset' = IF score_dir # 0 THEN 0
                        ELSE Min(SERVE_DELAY, since_reset + dtms)

\* a pass of the loop with its inputs drawn from the given sets; a draw is
\* made only where the pass uses it
FrameWith(D, K, RD, AE, SA, J) ==
  \E dtms \in D, keys \in K :
    LET lp == update_player(left_paddle, dtms, keys[1], keys[2])
        tb == Tick(ball, dtms)
        fire == Reaims(right_paddle, dtms)
    IN  \E rdelay \in (IF fire THEN RD ELSE {0}),
           aerr \in (IF fire THEN AE ELSE {0}),
           angle \in (IF ServeReady(tb) THEN SA ELSE {0}) :
          LET rp == update_ai(right_paddle, dtms, ball, rdelay, aerr)
              served == serve_if_ready(tb, angle)
              hits == /\ ~Stopped(served)
                      /\ HitOf(BallWalls(BallMove(served, dtms)), lp, rp) # "none"
          IN  \E jitter \in (IF hits THEN J ELSE {0}) :
                FrameStep(dtms, keys[1], keys[2], rdelay, aerr, angle, jitter)

\* ---- Spec: whole matches at a slow frame rate ----
\* frames of half a second, every key combination, serves straight and at
\* +-0.342 rad, jitter at both ends of its range, one draw for the AI
MatchInit == InitWith({AI_REACTION_LO}) /\ probe = NoProbe

MatchFrame ==
  /\ left_score <= MaxScore
  /\ right_score <= MaxScore
  /\ probe' = probe
  /\ FrameWith({500}, AllKeys, {AI_REACTION_LO}, {AI_AIM_ERROR_LO * 1000},
               {-19, 0, 19}, {-8, 8})

Init == MatchInit

Next == MatchFrame

Spec == Init /\ [][Next]_vars

\* ---- SpecRally: the first points at 60 frames a second ----
\* frames of 16 ms, no key held, the AI's aim error at both ends of its
\* range and both signs
RallyInit == InitWith({AI_REACTION_HI}) /\ probe = NoProbe

RallyFrame ==
  /\ left_score + right_score < MaxPoints
  /\ probe' = probe
  /\ FrameWith({16}, NoKeys, {AI_REACTION_HI},
               {-(AI_AIM_ERROR_HI * 1000), AI_AIM_ERROR_HI * 1000},
               {-19, 0, 19}, {8})

NextRally == RallyFrame

SpecRally == RallyInit /\ [][NextRally]_vars

\* clock.tick(60) returns 16 or 17 ms
FrameTimes == {16, 17}

\* ---- SpecReact: the first point with uneven frames ----
\* frames of 16 and 17 ms, no key held, the AI's reaction delay at both ends
\* of its range, straight serves
ReactInit == InitWith({AI_REACTION_LO, AI_REACTION_HI}) /\ probe = NoProbe

ReactFrame ==
  /\ left_score + right_score < MaxReactPoints
  /\ probe' = probe
  /\ FrameWith(FrameTimes, NoKeys, {AI_REACTION_LO, AI_REACTION_HI},
               {AI_AIM_ERROR_HI * 1000}, {0}, {8})

NextReact == ReactFrame

SpecReact == ReactInit /\ [][NextReact]_vars

\* ---- SpecReflect: reflect_off_bounds called on its own ----
\* the match is left as main() constructs it
match_vars == << left_paddle, right_paddle, ball, left_score, right_score,
                 last, scored, since_reset >>

\* the arguments of a call: any y, and bounds in either order (span <= 0 is
\* the branch of line 206)
ReflectInit ==
  /\ InitWith({AI_REACTION_LO})
  /\ \E y \in (-(3 * MaxBound)) .. (3 * MaxBound),
        min_y \in (-MaxBound) .. MaxBound,
        max_y \in (-MaxBound) .. MaxBound :
       probe = [ op |-> "reflect", y |-> y, min_y |-> min_y, max_y |-> max_y,
                 called |-> 0, out |-> y, again |-> y ]

\* a call, and a second call on the result of the first
ReflectCall ==
  /\ probe.op = "reflect"
  /\ probe.called < 2
  /\ probe' = IF probe.called = 0
                THEN [probe EXCEPT !.called = 1,
                        !.out = reflect_off_bounds(probe.y, probe.min_y, probe.max_y)]
                ELSE [probe EXCEPT !.called = 2,
                        !.again = reflect_off_bounds(probe.out, probe.min_y, probe.max_y)]
  /\ UNCHANGED match_vars

NextReflect == ReflectCall

SpecReflect == ReflectInit /\ [][NextReflect]_vars

\* ---- SpecPlayer: update_player called frame after frame ----
\* probe remembers the latest two calls: the frame time and the keys of each
\* and the paddle's centre before each (0, 1: the call before the latest and
\* the latest)
PlayerInit ==
  /\ InitWith({AI_REACTION_LO})
  /\ probe = [ op |-> "player",
               dt0 |-> 0, keys0 |-> <<FALSE, FALSE>>, c0 |-> PaddleCenterY(left_paddle),
               dt1 |-> 0, keys1 |-> <<FALSE, FALSE>>, c1 |-> PaddleCenterY(left_paddle) ]

\* main(), lines 262-276: the frame time, the keys and the call
PlayerCall ==
  /\ probe.op = "player"
  /\ \E dtms \in FrameTimes, keys \in AllKeys :
       /\ left_paddle' = update_player(left_paddle, dtms, keys[1], keys[2])
       /\ probe' = [ op |-> "player",
                     dt0 |-> probe.dt1, keys0 |-> probe.keys1, c0 |-> probe.c1,
                     dt1 |-> dtms, keys1 |-> keys, c1 |-> PaddleCenterY(left_paddle) ]
  /\ UNCHANGED << right_paddle, ball, left_score, right_score, last, scored,
                  since_reset >>

NextPlayer == PlayerCall

SpecPlayer == PlayerInit /\ [][NextPlayer]_vars

\* ---- the claims ----
BallCentered(b) ==
  /\ b.x + BALL_SIZE \div 2 = SCREEN_WIDTH \div 2
  /\ b.y + BALL_SIZE \div 2 = SCREEN_HEIGHT \div 2

\* C1: when the ball has fully passed the right edge Ball.update returns +1
\* and only left_score is incremented; when it has fully passed the left edge
\* it returns -1 and only right_score is incremented; otherwise it returns 0.
C1_ExitDecidesScore ==
  [][ /\ (last'.exit = "right" =>
            /\ last'.ret = 1
            /\ left_score' = left_score + 1
            /\ right_score' = right_score)
      /\ (last'.exit = "left" =>
            /\ last'.ret = -1
            /\ right_score' = right_score + 1
            /\ left_score' = left_score)
      /\ (last'.exit = "none" => last'.ret = 0) ]_vars

\* C2: once a score has reached SCORE_TO_WIN, every later pass of the loop
\* leaves the ball with zero velocity and Ball.update leaves it where it was.
C2_FrozenAfterWin ==
  [][ Won(left_score, right_score) =>
        /\ Stopped(ball')
        /\ last'.bounced.x = ball.x
        /\ last'.bounced.y = ball.y ]_vars

\* C3: once a score has reached SCORE_TO_WIN neither score changes again, so
\* no score ever exceeds SCORE_TO_WIN.
C3_ScoresFinalAfterWin ==
  /\ [][ Won(left_score, right_score) =>
           /\ left_score' = left_score
           /\ right_score' = right_score ]_vars
  /\ [](left_score <= SCORE_TO_WIN /\ right_score <= SCORE_TO_WIN)

\* C4: a serve that follows a point goes to the right (vx > 0) when left_score
\* was the score incremented last, and to the left (vx < 0) when it was
\* right_score.
C4_ServeAwayFromScorer ==
  [][ last'.served =>
        /\ (scored = "left" => last'.moved.vx > 0)
        /\ (scored = "right" => last'.moved.vx < 0) ]_vars

C4_Witness ==
  /\ last.served
  /\ scored = "left"
  /\ last.ret = 0
  /\ last.moved.vx > 0
  /\ left_score > 0

\* C5 as stated: a paddle hit adds exactly BALL_SPEED_INCREMENT to the speed
\* unless the speed was BALL_SPEED_MAX already, and then leaves it unchanged.
C5_ExactIncrement ==
  [][ last'.hit # "none" =>
        last'.bounced.speed = IF ball.speed = BALL_SPEED_MAX
                                THEN ball.speed
                                ELSE ball.speed + BALL_SPEED_INCREMENT ]_vars

\* C5 as amended: a paddle hit adds exactly BALL_SPEED_INCREMENT while that
\* does not pass BALL_SPEED_MAX, and otherwise takes the speed to
\* BALL_SPEED_MAX (a smaller step, or none); it never lowers the speed.
C5_IncrementUpToCap ==
  [][ last'.hit # "none" =>
        /\ last'.bounced.speed >= ball.speed
        /\ last'.bounced.speed <= BALL_SPEED_MAX
        /\ (ball.speed + BALL_SPEED_INCREMENT <= BALL_SPEED_MAX =>
              last'.bounced.speed = ball.speed + BALL_SPEED_INCREMENT)
        /\ (ball.speed + BALL_SPEED_INCREMENT > BALL_SPEED_MAX =>
              last'.bounced.speed = BALL_SPEED_MAX) ]_vars

C5_Witness ==
  /\ last.hit # "none"
  /\ last.moved.speed < BALL_SPEED_MAX
  /\ last.moved.speed + BALL_SPEED_INCREMENT > BALL_SPEED_MAX
  /\ last.bounced.speed = BALL_SPEED_MAX

\* C6: a pass of the loop whose score signal is nonzero adds exactly 1 to
\* exactly one score and leaves the other; a pass whose signal is 0 leaves
\* both; the scores are never negative and never decrease.
C6_ScoresFollowSignal ==
  /\ [][ /\ (last'.ret # 0 =>
               \/ (left_score' = left_score + 1 /\ right_score' = right_score)
               \/ (right_score' = right_score + 1 /\ left_score' = left_score))
         /\ (last'.ret = 0 =>
               left_score' = left_score /\ right_score' = right_score)
         /\ left_score' >= left_score
         /\ right_score' >= right_score ]_vars
  /\ [](left_score >= 0 /\ right_score >= 0)

C6_Witness ==
  /\ last.ret # 0
  /\ left_score > 0
  /\ right_score > 0

\* C7: each paddle's vertical centre stays within
\* [PADDLE_HEIGHT / 2, SCREEN_HEIGHT - PADDLE_HEIGHT / 2].
C7_PaddlesOnScreen ==
  /\ PaddleCenterY(left_paddle) >= PADDLE_HEIGHT \div 2
  /\ PaddleCenterY(left_paddle) <= SCREEN_HEIGHT - PADDLE_HEIGHT \div 2
  /\ PaddleCenterY(right_paddle) >= PADDLE_HEIGHT \div 2
  /\ PaddleCenterY(right_paddle) <= SCREEN_HEIGHT - PADDLE_HEIGHT \div 2

C7_Witness ==
  /\ last.dt > 0
  /\ PaddleCenterY(left_paddle) = PADDLE_HEIGHT \div 2
  /\ PaddleCenterY(right_paddle) # SCREEN_HEIGHT \div 2

\* C8: when the integrated position reaches the top wall (top <= 0) or the
\* bottom wall (bottom >= SCREEN_HEIGHT), the wall step puts the ball on that
\* wall, negates the vertical velocity and leaves the horizontal velocity.
C8_WallNegatesVy ==
  /\ (last.ran /\ last.moved.y <= 0 =>
        /\ last.walled.y = 0
        /\ last.walled.vy = -last.moved.vy
        /\ last.walled.vx = last.moved.vx)
  /\ (last.ran /\ last.moved.y > 0 /\ last.moved.y + BALL_SIZE >= SCREEN_HEIGHT =>
        /\ last.walled.y + BALL_SIZE = SCREEN_HEIGHT
        /\ last.walled.vy = -last.moved.vy
        /\ last.walled.vx = last.moved.vx)

C8_Witness ==
  /\ last.ran
  /\ last.moved.y + BALL_SIZE > SCREEN_HEIGHT
  /\ last.moved.vy > 0
  /\ last.walled.vy < 0
  /\ last.walled.y + BALL_SIZE = SCREEN_HEIGHT

\* C9: for SERVE_DELAY milliseconds after a Ball.reset the ball rests at the
\* screen centre with zero velocity and speed BALL_SPEED, and no serve is made.
C9_RestsUntilServeTime ==
  /\ [](since_reset < SERVE_DELAY =>
          /\ BallCentered(ball)
          /\ Stopped(ball)
          /\ ball.speed = BALL_SPEED)
  /\ [][ last'.served => since_reset + last'.dt >= SERVE_DELAY ]_vars

C9_Witness ==
  /\ since_reset > 0
  /\ since_reset < SERVE_DELAY
  /\ ~last.ran
  /\ Stopped(ball)
  /\ left_score + right_score > 0

\* C10: BALL_SPEED <= ball.speed <= BALL_SPEED_MAX always; a paddle hit never
\* lowers the speed; the speed goes down only in a pass of the loop that
\* resets the ball, and then to BALL_SPEED.
C10_SpeedRange ==
  /\ [](ball.speed >= BALL_SPEED /\ ball.speed <= BALL_SPEED_MAX)
  /\ [][ /\ (last'.hit # "none" => last'.bounced.speed >= ball.speed)
         /\ (ball'.speed < ball.speed =>
               /\ last'.ret # 0
               /\ ball'.speed = BALL_SPEED) ]_vars

C10_Witness ==
  /\ last.ret # 0
  /\ last.bounced.speed = BALL_SPEED_MAX
  /\ ball.speed = BALL_SPEED

\* C11: for bounds min_y < max_y the result of reflect_off_bounds lies within
\* [min_y, max_y]; for a y within [min_y, max_y] already the result is y, so
\* calling it again on its own result changes nothing.
C11_ReflectWithinBounds ==
  probe.op = "reflect" /\ probe.min_y < probe.max_y =>
    /\ (probe.called >= 1 =>
          /\ probe.out >= probe.min_y
          /\ probe.out <= probe.max_y
          /\ (probe.y >= probe.min_y /\ probe.y <= probe.max_y => probe.out = probe.y))
    /\ (probe.called = 2 => probe.again = probe.out)

C11_Witness ==
  /\ probe.op = "reflect"
  /\ probe.called = 2
  /\ probe.min_y < probe.max_y
  /\ probe.y > probe.max_y + 2 * (probe.max_y - probe.min_y)
  /\ probe.out > probe.min_y
  /\ probe.out < probe.max_y
  /\ probe.again = probe.out

\* C12: a re-aim made while the ball's horizontal velocity is <= 0 sets the
\* target to the screen's vertical centre plus the aim error, which is at
\* most 0.3 * AI_AIM_ERROR_PX[1] in magnitude, whatever the ball's position;
\* in that pass the paddle does not end further from the target than it was
\* (to within a pixel), and ends nearer when it was 5 px or more away.
C12_AwayAimsAtCentre ==
  [][ last'.reaimed /\ ball.vx <= 0 =>
        LET centre == (SCREEN_HEIGHT * 1000) \div 2
            target == right_paddle'.target_y
            before == Abs(PaddleCenterY(right_paddle) * 1000 - target)
            after == Abs(PaddleCenterY(right_paddle') * 1000 - target)
        IN  /\ target = centre + right_paddle'.aim_error
            /\ Abs(target - centre) <= (AI_AIM_ERROR_HI * 1000 * 3) \div 10
            /\ after <= Max(before, 1000)
            /\ (before >= 5000 => after < before) ]_vars

C12_Witness ==
  /\ last.reaimed
  /\ last.moved.vx <= 0
  /\ last.moved.x < SCREEN_WIDTH \div 2 - BALL_SIZE
  /\ right_paddle.target_y = (SCREEN_HEIGHT * 1000) \div 2 + (AI_AIM_ERROR_HI * 1000 * 3) \div 10
  /\ PaddleCenterY(right_paddle) < SCREEN_HEIGHT \div 2 - 5

\* C13: the ball goes from waiting (zero velocity) to in flight only by a
\* serve made once the serve time has come, and from in flight back to
\* waiting only in a pass of the loop whose score signal is nonzero
\* (Ball.reset); nothing else zeroes the velocity of a ball in flight.
C13_ServeAndScoreOnly ==
  [][ /\ (Stopped(ball) /\ last'.ran =>
            /\ last'.served
            /\ since_reset + last'.dt >= SERVE_DELAY)
      /\ (last'.ran /\ Stopped(ball') => last'.ret # 0)
      /\ (~Stopped(ball) => last'.ran) ]_vars

\* C14: a bounce is made only off the left paddle by a ball moving left or
\* off the right paddle by a ball moving right; after it the horizontal
\* velocity points away from the struck paddle, the ball is flush against
\* that paddle's inner edge, and the same update reports no score.
C14_BounceAwayFromPaddle ==
  /\ (last.hit = "left" =>
        /\ last.walled.vx < 0
        /\ last.bounced.vx > 0
        /\ last.bounced.x = LEFT_PADDLE_X + PADDLE_WIDTH
        /\ last.ret = 0)
  /\ (last.hit = "right" =>
        /\ last.walled.vx > 0
        /\ last.bounced.vx < 0
        /\ BallRight(last.bounced) = RIGHT_PADDLE_X
        /\ last.ret = 0)
  /\ (last.hit = "none" => last.bounced = last.walled)

\* the centre lies strictly inside the range update_player clamps it to
Unclamped(c) ==
  c > PADDLE_HEIGHT \div 2 /\ c < SCREEN_HEIGHT - PADDLE_HEIGHT \div 2

\* C15: update_player moves the paddle's centre up by speed * dt when only
\* up is held and down by speed * dt when only down is held (to the pixel,
\* unless the result is clamped), and leaves it when both or neither are
\* held; an up-only call followed by a down-only call with the same dt
\* brings the centre back where it was when neither result is clamped.
C15_UpThenDownRestores ==
  probe.op = "player" =>
    LET c2 == PaddleCenterY(left_paddle)
        up == probe.keys1[1]
        down == probe.keys1[2]
    IN  /\ (up = down => c2 = probe.c1)
        /\ (up /\ ~down /\ Unclamped(c2) =>
              Abs((probe.c1 - c2) * 1000 - PADDLE_SPEED * probe.dt1) < 1000)
        /\ (down /\ ~up /\ Unclamped(c2) =>
              Abs((c2 - probe.c1) * 1000 - PADDLE_SPEED * probe.dt1) < 1000)
        /\ (/\ probe.keys0 = <<TRUE, FALSE>>
            /\ probe.keys1 = <<FALSE, TRUE>>
            /\ probe.dt0 = probe.dt1
            /\ Unclamped(probe.c1)
            /\ Unclamped(c2)
            => c2 = probe.c0)

\* C16: the AI re-aims only in a call in which the reaction timer, with the
\* frame's milliseconds added, has reached next_reaction_at; that call sets
\* the timer to 0 and draws next_reaction_at anew from [80, 160] ms, so at
\* least 80 ms of frame time have accumulated since the re-aim before; in
\* every other call the target, the aim error and the delay are kept and the
\* timer has grown by the frame's milliseconds.
C16_ReaimsOnTimerOnly ==
  /\ [](/\ right_paddle.next_reaction_at >= AI_REACTION_LO
         /\ right_paddle.next_reaction_at <= AI_REACTION_HI)
  /\ [][ LET timer == right_paddle.reaction_timer + last'.dt
         IN  /\ (timer >= right_paddle.next_reaction_at =>
                   /\ timer >= AI_REACTION_LO
                   /\ right_paddle'.reaction_timer = 0)
             /\ (timer < right_paddle.next_reaction_at =>
                   /\ right_paddle'.reaction_timer = timer
                   /\ right_paddle'.next_reaction_at = right_paddle.next_reaction_at
                   /\ right_paddle'.target_y = right_paddle.target_y
                   /\ right_paddle'.aim_error = right_paddle.aim_error) ]_vars

C16_Witness ==
  /\ ~last.reaimed
  /\ last.ran
  /\ last.moved.vx > 0
  /\ right_paddle.reaction_timer > AI_REACTION_LO
  /\ right_paddle.reaction_timer % 16 # 0
  /\ right_paddle.next_reaction_at = AI_REACTION_HI
  /\ right_paddle.aim_error # 0

\* C17: in every update_ai call the paddle's centre changes by the damped
\* offset clamped to +- speed * dt, so by at most speed * dt either way.
C17_StepWithinSpeedLimit ==
  [][ Abs(PaddleCenterY(right_paddle') - PaddleCenterY(right_paddle)) * 1000
        <= AI_MAX_SPEED * last'.dt ]_vars

\* C18: once a score has reached SCORE_TO_WIN (the win banner is shown), the
\* test left_score > right_score that names the winner gives the same
\* outcome in every later pass of the loop.
C18_WinnerNeverChanges ==
  [][ Won(left_score, right_score) =>
        ((left_score' > right_score') <=> (left_score > right_score)) ]_vars

\* C19: after a Ball.update that processed a wall collision the vertical
\* velocity points away from the wall touched (vy >= 0 at the top wall,
\* vy <= 0 at the bottom wall), also when a paddle was hit in the same
\* update; and a ball lying on a wall with its vertical velocity pointing
\* away from it is not turned back toward that wall by the wall step.
C19_AwayFromWallTouched ==
  /\ [](/\ (last.ran /\ last.wall = "top" => last.bounced.vy >= 0)
         /\ (last.ran /\ last.wall = "bottom" => last.bounced.vy <= 0))
  /\ [][ /\ (ball.y = 0 /\ ball.vy > 0 /\ last'.ran => last'.walled.vy >= 0)
         /\ (BallBottom(ball) = SCREEN_HEIGHT /\ ball.vy < 0 /\ last'.ran =>
               last'.walled.vy <= 0) ]_vars

\* C20: at the end of every Ball.update and after every Ball.reset the ball
\* lies vertically inside the screen: top >= 0 and bottom <= SCREEN_HEIGHT.
C20_BallInsideVertically ==
  /\ last.bounced.y >= 0
  /\ BallBottom(last.bounced) <= SCREEN_HEIGHT
  /\ ball.y >= 0
  /\ BallBottom(ball) <= SCREEN_HEIGHT

C20_Witness ==
  /\ last.ran
  /\ last.moved.y < 0
  /\ last.bounced.y = 0
  /\ ball.y = 0

====
